---- MODULE Spec2Model ----
(***************************************************************************)
(* NeuraVault: the docking-result ingestion pipeline (parse, tag, anchor,  *)
(* store) and the query over the stored records.                           *)
(*                                                                         *)
(* Conventions of the model                                                *)
(*  - a submission's text is a sequence of tokens separated by one blank;  *)
(*    the regular expressions of the extractors are evaluated over that    *)
(*    sequence, token by token;                                            *)
(*  - energies and confidences are fixed-point numbers in tenths           *)
(*    (-8.7 kcal/mol is -87, confidence 0.3 is 3);                         *)
(*  - an optional value (undefined / null in the code) is a sequence of    *)
(*    length 0 or 1;                                                       *)
(*  - a handler is a process whose steps are the stretches of code between *)
(*    two awaits; pc names the await it is suspended at.                   *)
(***************************************************************************)
EXTENDS Integers, Sequences, FiniteSets, TLC

(***************************************************************************)
(* Bounds of the model.                                                    *)
(***************************************************************************)
MaxActive == 2
MaxStored == 1
MaxClock == 1

\* the handler invocations that can be in flight at once
Runs == 1..MaxActive

None == <<>>
Some(x) == <<x>>
IsSome(o) == Len(o) = 1
Get(o) == o[1]

(***************************************************************************)
(* Numbers.  parseFloat yields NaN for a text such as "-"; every           *)
(* comparison with NaN is false.                                           *)
(***************************************************************************)
NaN == 999999

Lt(a, b) == a # NaN /\ b # NaN /\ a < b
Le(a, b) == a # NaN /\ b # NaN /\ a <= b
Ge(a, b) == a # NaN /\ b # NaN /\ a >= b
StrictNe(a, b) == a = NaN \/ b = NaN \/ a # b

parseFloat(text) ==
  CASE text = "-10.5" -> -105
    [] text = "-10"   -> -100
    [] text = "-8.7"  -> -87
    [] text = "-8"    -> -80
    [] text = "-7"    -> -70
    [] text = "-6"    -> -60
    [] text = "-5"    -> -50
    [] text = "-4"    -> -40
    [] text = "-3.2"  -> -32
    [] text = "0"     -> 0
    [] text = "1"     -> 10
    [] text = "123"   -> 1230
    [] OTHER          -> NaN

(***************************************************************************)
(* Text.  Tokens, their lengths, and what the character classes of the     *)
(* extractors' regular expressions match at the start or end of a token.   *)
(***************************************************************************)
NumTokens == {"-10.5", "-10", "-8.7", "-8", "-7", "-6", "-5", "-4", "-3.2", "-"}

TokLen(t) ==
  CASE t \in {"1", "=", "0"}                               -> 1
    [] t \in {"hi", "-8", "-7", "-6", "-5", "-4"}          -> 2
    [] t = "-10"                                           -> 3
    [] t \in {"GOLD", "Gold", "Vina", "VINA", "1ABC", "kcal", "-8.7", "-3.2"} -> 4
    [] t \in {"Glide", "GLIDE", "Score", "Title", "notes", "-10.5"} -> 5
    [] t \in {"ligand", "energy", "MOL123", "RESULT"}      -> 6
    [] t \in {"protein", "Docking", "docking"}             -> 7
    [] t \in {"receptor", "AutoDock", "affinity"}          -> 8
    [] t = "-"                                             -> 1
    [] OTHER                                               -> 4

RECURSIVE SumLen(_)
SumLen(c) == IF c = <<>> THEN 0 ELSE TokLen(Head(c)) + SumLen(Tail(c))

\* content.length
Length(c) == IF c = <<>> THEN 0 ELSE SumLen(c) + (Len(c) - 1)

\* String.prototype.toLowerCase on a token
toLowerCase(t) ==
  CASE t \in {"GOLD", "Gold"}   -> "gold"
    [] t \in {"Glide", "GLIDE"} -> "glide"
    [] t \in {"Vina", "VINA"}   -> "vina"
    [] t = "AutoDock"           -> "autodock"
    [] t = "RESULT"             -> "result"
    [] t = "Score"              -> "score"
    [] t = "Title"              -> "title"
    [] t = "Docking"            -> "docking"
    [] t = "1ABC"               -> "1abc"
    [] t = "MOL123"             -> "mol123"
    [] OTHER                    -> t

\* content.includes(phrase): the phrase's tokens occur contiguously, case kept
includes(c, phrase) ==
  \E i \in 1..Len(c) :
    /\ i + Len(phrase) - 1 <= Len(c)
    /\ \A j \in 1..Len(phrase) : c[i + j - 1] = phrase[j]

\* (\w+) at the start of a token: the text it captures, "" when it cannot match
WordPrefix(t) ==
  IF t \in NumTokens \/ t = "=" THEN "" ELSE t

\* ([-\d.]+) at the start of a token
NumPrefix(t) ==
  CASE t \in NumTokens -> t
    [] t = "0"         -> "0"
    [] t = "1"         -> "1"
    [] t = "1ABC"      -> "1"
    [] OTHER           -> ""

\* ([-\d.]+) at the end of a token
NumSuffix(t) ==
  CASE t \in NumTokens -> t
    [] t = "0"         -> "0"
    [] t = "1"         -> "1"
    [] t = "MOL123"    -> "123"
    [] OTHER           -> ""

Min(S) == CHOOSE x \in S : \A y \in S : x <= y

\* content.match(/kw1\s+kw2...[:\s]+(capture)/i): the capture of the leftmost
\* match, None when there is none.  kws are lower-case; group is "word" for
\* (\w+) and "num" for ([-\d.]+).
MatchAfter(c, kws, group) ==
  LET n == Len(kws)
      Cap(t) == IF group = "word" THEN WordPrefix(t) ELSE NumPrefix(t)
      hits == {i \in 1..Len(c) :
                 /\ i + n <= Len(c)
                 /\ \A j \in 1..n : toLowerCase(c[i + j - 1]) = kws[j]
                 /\ Cap(c[i + n]) # ""}
  IN IF hits = {} THEN None ELSE Some(Cap(c[Min(hits) + n]))

\* content.match(/(?:kws1|kws2)\s*(capture)/): the capture of the leftmost match
\* of either alternative
MatchAfterEither(c, kws1, kws2, group) ==
  LET Cap(t) == IF group = "word" THEN WordPrefix(t) ELSE NumPrefix(t)
      at(kws) == {i \in 1..Len(c) :
                    /\ i + Len(kws) <= Len(c)
                    /\ \A j \in 1..Len(kws) : toLowerCase(c[i + j - 1]) = kws[j]
                    /\ Cap(c[i + Len(kws)]) # ""}
      hits == at(kws1) \cup at(kws2)
      first == Min(hits)
  IN IF hits = {} THEN None
     ELSE Some(Cap(c[first + (IF first \in at(kws1) THEN Len(kws1) ELSE Len(kws2))]))

\* content.match(/([-\d.]+)\s*kcal/i)
MatchBeforeKcal(c) ==
  LET hits == {i \in 1..Len(c) :
                 /\ i + 1 <= Len(c)
                 /\ NumSuffix(c[i]) # ""
                 /\ toLowerCase(c[i + 1]) = "kcal"}
  IN IF hits = {} THEN None ELSE Some(NumSuffix(c[Min(hits)]))

\* content.match(/\s+1\s+([-\d.]+)/): a lone 1 that is not the first token
MatchVinaTable(c) ==
  LET hits == {i \in 2..Len(c) :
                 /\ i + 1 <= Len(c)
                 /\ c[i] = "1"
                 /\ NumPrefix(c[i + 1]) # ""}
  IN IF hits = {} THEN None ELSE Some(NumPrefix(c[Min(hits) + 1]))

\* a || b on two match results
OrElse(a, b) == IF IsSome(a) THEN a ELSE b

\* createHash("sha256").update(x).digest("hex"): injective on what is hashed
sha256(x) == <<"sha256", x>>

(***************************************************************************)
(* FieldExtractor of PARSE_DOCKING_FILE (parseDockingFile.ts).             *)
(***************************************************************************)
ParsedData(protein, ligand, energy, tool, hash) ==
  [protein |-> protein, ligand |-> ligand, binding_energy |-> energy,
   docking_tool |-> tool, file_hash |-> hash]

\* match ? match[1] : dflt
CaptureOr(m, dflt) == IF IsSome(m) THEN Get(m) ELSE dflt

\* match ? parseFloat(match[1]) : dflt
NumberOr(m, dflt) == IF IsSome(m) THEN parseFloat(Get(m)) ELSE dflt

parseVinaFormat(content, fileHash) ==
  LET proteinMatch == OrElse(MatchAfter(content, <<"receptor">>, "word"),
                             MatchAfter(content, <<"protein">>, "word"))
      ligandMatch  == OrElse(MatchAfter(content, <<"ligand">>, "word"),
                             MatchAfter(content, <<"remark", "name", "=">>, "word"))
      energyMatch  == MatchVinaTable(content)
  IN Some(ParsedData(CaptureOr(proteinMatch, "UNKNOWN"),
                     CaptureOr(ligandMatch, "UNKNOWN"),
                     NumberOr(energyMatch, 0),
                     "AutoDock Vina", fileHash))

parseGoldFormat(content, fileHash) ==
  LET proteinMatch == MatchAfter(content, <<"protein">>, "word")
      ligandMatch  == MatchAfter(content, <<"ligand">>, "word")
      scoreMatch   == MatchAfter(content, <<"gold", "score">>, "num")
  IN Some(ParsedData(CaptureOr(proteinMatch, "UNKNOWN"),
                     CaptureOr(ligandMatch, "UNKNOWN"),
                     NumberOr(scoreMatch, 0),
                     "GOLD", fileHash))

parseGlideFormat(content, fileHash) ==
  LET proteinMatch == MatchAfter(content, <<"receptor">>, "word")
      ligandMatch  == MatchAfter(content, <<"title">>, "word")
      scoreMatch   == MatchAfter(content, <<"docking", "score">>, "num")
  IN Some(ParsedData(CaptureOr(proteinMatch, "MOCK_PROTEIN"),
                     CaptureOr(ligandMatch, "MOCK_LIGAND"),
                     NumberOr(scoreMatch, -75),
                     "Glide", fileHash))

parseGenericFormat(content, fileHash) ==
  IF Length(content) < 10
  THEN None
  ELSE Some(ParsedData("GENERIC_PROTEIN", "GENERIC_LIGAND", -60, "Unknown", fileHash))

\* parseDockingContent with the GOLD signature tried before the Vina one
parseDockingContentGoldFirst(content) ==
  LET fileHash == sha256(content)
  IN IF includes(content, <<"GOLD">>) \/ includes(content, <<"Gold", "Score">>)
       THEN parseGoldFormat(content, fileHash)
     ELSE IF includes(content, <<"AutoDock", "Vina">>) \/ includes(content, <<"VINA", "RESULT">>)
       THEN parseVinaFormat(content, fileHash)
     ELSE IF includes(content, <<"Glide">>) \/ includes(content, <<"GLIDE">>)
       THEN parseGlideFormat(content, fileHash)
     ELSE parseGenericFormat(content, fileHash)

parseDockingContent(content) ==
  LET fileHash == sha256(content)
  IN IF includes(content, <<"AutoDock", "Vina">>) \/ includes(content, <<"VINA", "RESULT">>)
       THEN parseVinaFormat(content, fileHash)
     ELSE IF includes(content, <<"GOLD">>) \/ includes(content, <<"Gold", "Score">>)
       THEN parseGoldFormat(content, fileHash)
     ELSE IF includes(content, <<"Glide">>) \/ includes(content, <<"GLIDE">>)
       THEN parseGlideFormat(content, fileHash)
     ELSE parseGenericFormat(content, fileHash)

(***************************************************************************)
(* FieldExtractor of PROCESS_DOCKING_WORKFLOW (processDockingWorkflow.ts). *)
(* It never returns a falsy value.                                         *)
(***************************************************************************)
\* the workflow's extractor with the detected tool mixed into the hash
wfParseDockingContentSalted(content) ==
  LET fileHash     == sha256(content)
      proteinMatch == OrElse(MatchAfter(content, <<"receptor">>, "word"),
                             MatchAfter(content, <<"protein">>, "word"))
      ligandMatch  == MatchAfter(content, <<"ligand">>, "word")
      energyMatch  == OrElse(MatchAfter(content, <<"energy">>, "num"),
                      OrElse(MatchBeforeKcal(content),
                      OrElse(MatchAfter(content, <<"affinity", "=">>, "num"),
                             MatchVinaTable(content))))
      docking_tool == IF includes(content, <<"Vina">>) THEN "AutoDock Vina"
                      ELSE IF includes(content, <<"GOLD">>) THEN "GOLD"
                      ELSE IF includes(content, <<"Glide">>) THEN "Glide"
                      ELSE "Unknown"
  IN Some(ParsedData(CaptureOr(proteinMatch, "UNKNOWN"),
                     CaptureOr(ligandMatch, "UNKNOWN"),
                     NumberOr(energyMatch, 0),
                     docking_tool, sha256(<<docking_tool>> \o content)))

\* parseDockingContent of PROCESS_DOCKING_WORKFLOW
wfParseDockingContent(content) ==
  LET fileHash     == sha256(content)
      proteinMatch == OrElse(MatchAfter(content, <<"receptor">>, "word"),
                             MatchAfter(content, <<"protein">>, "word"))
      ligandMatch  == MatchAfter(content, <<"ligand">>, "word")
      energyMatch  == OrElse(MatchAfter(content, <<"energy">>, "num"),
                      OrElse(MatchBeforeKcal(content),
                      OrElse(MatchAfter(content, <<"affinity", "=">>, "num"),
                             MatchVinaTable(content))))
      docking_tool == IF includes(content, <<"Vina">>) THEN "AutoDock Vina"
                      ELSE IF includes(content, <<"GOLD">>) THEN "GOLD"
                      ELSE IF includes(content, <<"Glide">>) THEN "Glide"
                      ELSE "Unknown"
  IN Some(ParsedData(CaptureOr(proteinMatch, "UNKNOWN"),
                     CaptureOr(ligandMatch, "UNKNOWN"),
                     NumberOr(energyMatch, 0),
                     docking_tool, fileHash))

(***************************************************************************)
(* Classifier.                                                             *)
(***************************************************************************)
\* `tool_${docking_tool.toLowerCase().replace(/\s+/g, "_")}`
toolTag(docking_tool) ==
  CASE docking_tool = "AutoDock Vina" -> "tool_autodock_vina"
    [] docking_tool = "GOLD"          -> "tool_gold"
    [] docking_tool = "Glide"         -> "tool_glide"
    [] docking_tool = "Unknown"       -> "tool_unknown"
    [] docking_tool = "Smina  Fork"   -> "tool_smina_fork"
    [] OTHER                          -> "tool_other"

TierTags == {"very_strong_binder", "strong_binder", "moderate_binder",
             "weak_binder", "very_weak_binder"}

\* Math.min(score, 1.0)
MathMin(a, b) == IF a < b THEN a ELSE b

\* calculateConfidence with a zero energy counted as evidence
calculateConfidenceZeroEarns(data) ==
  LET s1 == IF data.protein # "UNKNOWN" /\ data.protein # "GENERIC_PROTEIN" THEN 3 ELSE 0
      s2 == IF data.ligand # "UNKNOWN" /\ data.ligand # "GENERIC_LIGAND" THEN 3 ELSE 0
      s3 == IF Le(data.binding_energy, 0) THEN 2 ELSE 0
      s4 == IF data.docking_tool # "Unknown" THEN 2 ELSE 0
  IN MathMin(s1 + s2 + s3 + s4, 10)

\* calculateConfidence of AUTO_TAG_DOCKING_RESULT
calculateConfidence(data) ==
  LET s1 == IF data.protein # "UNKNOWN" /\ data.protein # "GENERIC_PROTEIN" THEN 3 ELSE 0
      s2 == IF data.ligand # "UNKNOWN" /\ data.ligand # "GENERIC_LIGAND" THEN 3 ELSE 0
      s3 == IF StrictNe(data.binding_energy, 0) /\ Lt(data.binding_energy, 0) THEN 2 ELSE 0
      s4 == IF data.docking_tool # "Unknown" THEN 2 ELSE 0
  IN MathMin(s1 + s2 + s3 + s4, 10)

TaggedData(data, tags, confidence) ==
  [protein |-> data.protein, ligand |-> data.ligand,
   binding_energy |-> data.binding_energy, docking_tool |-> data.docking_tool,
   file_hash |-> data.file_hash, tags |-> tags, confidence |-> confidence]

\* applyTags of AUTO_TAG_DOCKING_RESULT with the ligand rule evaluated before
\* the protein rule
applyTagsLigandFirst(data) ==
  LET energy == data.binding_energy
      tags == << IF Lt(energy, -100) THEN "very_strong_binder"
                 ELSE IF Lt(energy, -80) THEN "strong_binder"
                 ELSE IF Lt(energy, -60) THEN "moderate_binder"
                 ELSE IF Lt(energy, -40) THEN "weak_binder"
                 ELSE "very_weak_binder",
                 toolTag(data.docking_tool),
                 IF data.ligand # "UNKNOWN" /\ data.ligand # "GENERIC_LIGAND"
                   THEN "ligand_identified" ELSE "ligand_unknown",
                 IF data.protein # "UNKNOWN" /\ data.protein # "GENERIC_PROTEIN"
                   THEN "protein_identified" ELSE "protein_unknown" >>
  IN TaggedData(data, tags, calculateConfidence(data))

\* applyTags of AUTO_TAG_DOCKING_RESULT
applyTags(data) ==
  LET energy == data.binding_energy
      tags == << IF Lt(energy, -100) THEN "very_strong_binder"
                 ELSE IF Lt(energy, -80) THEN "strong_binder"
                 ELSE IF Lt(energy, -60) THEN "moderate_binder"
                 ELSE IF Lt(energy, -40) THEN "weak_binder"
                 ELSE "very_weak_binder",
                 toolTag(data.docking_tool),
                 IF data.protein # "UNKNOWN" /\ data.protein # "GENERIC_PROTEIN"
                   THEN "protein_identified" ELSE "protein_unknown",
                 IF data.ligand # "UNKNOWN" /\ data.ligand # "GENERIC_LIGAND"
                   THEN "ligand_identified" ELSE "ligand_unknown" >>
  IN TaggedData(data, tags, calculateConfidence(data))

\* applyTags of PROCESS_DOCKING_WORKFLOW with its comparisons made inclusive
wfApplyTagsInclusive(data) ==
  LET energy == data.binding_energy
      tags == << IF Le(energy, -100) THEN "very_strong_binder"
                 ELSE IF Le(energy, -80) THEN "strong_binder"
                 ELSE IF Le(energy, -60) THEN "moderate_binder"
                 ELSE IF Le(energy, -40) THEN "weak_binder"
                 ELSE "very_weak_binder",
                 toolTag(data.docking_tool) >>
              \o (IF data.protein # "UNKNOWN" THEN <<"protein_identified">> ELSE <<>>)
              \o (IF data.ligand # "UNKNOWN" THEN <<"ligand_identified">> ELSE <<>>)
      c1 == IF data.protein # "UNKNOWN" THEN 3 ELSE 0
      c2 == IF data.ligand # "UNKNOWN" THEN 3 ELSE 0
      c3 == IF StrictNe(data.binding_energy, 0) /\ Lt(data.binding_energy, 0) THEN 2 ELSE 0
      c4 == IF data.docking_tool # "Unknown" THEN 2 ELSE 0
  IN TaggedData(data, tags, MathMin(c1 + c2 + c3 + c4, 10))

\* applyTags of PROCESS_DOCKING_WORKFLOW
wfApplyTags(data) ==
  LET energy == data.binding_energy
      tags == << IF Lt(energy, -100) THEN "very_strong_binder"
                 ELSE IF Lt(energy, -80) THEN "strong_binder"
                 ELSE IF Lt(energy, -60) THEN "moderate_binder"
                 ELSE IF Lt(energy, -40) THEN "weak_binder"
                 ELSE "very_weak_binder",
                 toolTag(data.docking_tool) >>
              \o (IF data.protein # "UNKNOWN" THEN <<"protein_identified">> ELSE <<>>)
              \o (IF data.ligand # "UNKNOWN" THEN <<"ligand_identified">> ELSE <<>>)
      c1 == IF data.protein # "UNKNOWN" THEN 3 ELSE 0
      c2 == IF data.ligand # "UNKNOWN" THEN 3 ELSE 0
      c3 == IF StrictNe(data.binding_energy, 0) /\ Lt(data.binding_energy, 0) THEN 2 ELSE 0
      c4 == IF data.docking_tool # "Unknown" THEN 2 ELSE 0
  IN TaggedData(data, tags, MathMin(c1 + c2 + c3 + c4, 10))

(***************************************************************************)
(* IntegrityAnchor.                                                        *)
(***************************************************************************)
\* JSON.stringify of an object: its keys and values in insertion order
Json(keys, obj) == [i \in 1..Len(keys) |-> <<keys[i], obj[keys[i]]>>]

\* key order of { ...taggedData, timestamp, solana_tx }
ResultKeys == <<"protein", "ligand", "binding_energy", "docking_tool", "file_hash",
                "tags", "confidence", "timestamp", "solana_tx">>

\* key order of the object literal hashed by createSolanaProof
ProofKeys == <<"protein", "ligand", "binding_energy", "docking_tool", "tags",
               "confidence", "file_hash", "timestamp">>

\* `MOCK_${metadataHash.substring(0, 16)}`
mockTxId(metadataHash) == <<"MOCK", metadataHash>>

\* { ...taggedData, timestamp, solana_tx: null }
DockingResult(tagged, timestamp) ==
  [protein |-> tagged.protein, ligand |-> tagged.ligand,
   binding_energy |-> tagged.binding_energy, docking_tool |-> tagged.docking_tool,
   file_hash |-> tagged.file_hash, tags |-> tagged.tags,
   confidence |-> tagged.confidence, timestamp |-> timestamp, solana_tx |-> None]

\* storeInDatabase: builds the result object; nothing is written
storeInDatabase(taggedData, timestamp) == DockingResult(taggedData, timestamp)

\* createSolanaProof without its try / catch: what throws inside it escapes
createSolanaProofUncaught(configured, throws, data) ==
  [raised |-> throws,
   value  |-> IF ~configured THEN None
              ELSE Some(mockTxId(sha256(Json(ProofKeys, data))))]

\* createSolanaProof: what the call does: it returns (null when a setting is
\* missing or when anything inside its try block throws, the mock transaction
\* id otherwise) and never raises
createSolanaProof(configured, throws, data) ==
  [raised |-> FALSE,
   value  |-> IF throws THEN None
              ELSE IF ~configured THEN None
              ELSE Some(mockTxId(sha256(Json(ProofKeys, data))))]

(***************************************************************************)
(* QueryEngine.                                                            *)
(***************************************************************************)
\* String.prototype.toUpperCase on a captured name
toUpperCase(t) ==
  CASE t \in {"1abc", "1ABC"}     -> "1ABC"
    [] t \in {"mol123", "MOL123"} -> "MOL123"
    [] t \in {"abc", "ABC"}       -> "ABC"
    [] t \in {"2xyz", "2XYZ"}     -> "2XYZ"
    [] t = "UNKNOWN"              -> "UNKNOWN"
    [] t = "all"                  -> "ALL"
    [] OTHER                      -> t

\* a.includes(b) on upper- or lower-cased names
StrIncludes(a, b) ==
  \/ a = b
  \/ a = "autodock vina" /\ b \in {"autodock", "vina"}
  \/ a = "1ABC" /\ b = "ABC"

LowerAll(c) == [i \in 1..Len(c) |-> toLowerCase(c[i])]

\* docking_tool.toLowerCase()
toolLower(tool) ==
  CASE tool = "AutoDock Vina" -> "autodock vina"
    [] tool = "GOLD"          -> "gold"
    [] tool = "Glide"         -> "glide"
    [] tool = "Unknown"       -> "unknown"
    [] OTHER                  -> tool

NoFilters ==
  [protein |-> None, ligand |-> None, minEnergy |-> None, maxEnergy |-> None,
   tool |-> None, tags |-> None]

parseQueryFilters(queryText) ==
  LET lowerQuery       == LowerAll(queryText)
      proteinMatch     == MatchAfter(lowerQuery, <<"protein">>, "word")
      ligandMatch      == MatchAfter(lowerQuery, <<"ligand">>, "word")
      belowMatch       == MatchAfter(lowerQuery, <<"below">>, "num")
      aboveMatch       == MatchAfter(lowerQuery, <<"above">>, "num")
      lessThanMatch    == MatchAfterEither(lowerQuery, <<"less", "than">>, <<"<">>, "num")
      greaterThanMatch == MatchAfterEither(lowerQuery, <<"greater", "than">>, <<">">>, "num")
      tags == (IF includes(lowerQuery, <<"strong", "binder">>) THEN <<"strong_binder">> ELSE <<>>)
           \o (IF includes(lowerQuery, <<"weak", "binder">>) THEN <<"weak_binder">> ELSE <<>>)
           \o (IF includes(lowerQuery, <<"moderate", "binder">>) THEN <<"moderate_binder">> ELSE <<>>)
  IN [protein   |-> IF IsSome(proteinMatch) THEN Some(toUpperCase(Get(proteinMatch))) ELSE None,
      ligand    |-> IF IsSome(ligandMatch) THEN Some(toUpperCase(Get(ligandMatch))) ELSE None,
      maxEnergy |-> IF IsSome(belowMatch) \/ IsSome(lessThanMatch)
                      THEN Some(parseFloat(Get(OrElse(belowMatch, lessThanMatch))))
                      ELSE None,
      minEnergy |-> IF IsSome(aboveMatch) \/ IsSome(greaterThanMatch)
                      THEN Some(parseFloat(Get(OrElse(aboveMatch, greaterThanMatch))))
                      ELSE None,
      tool      |-> IF includes(lowerQuery, <<"vina">>) THEN Some("AutoDock Vina")
                    ELSE IF includes(lowerQuery, <<"gold">>) THEN Some("GOLD")
                    ELSE IF includes(lowerQuery, <<"glide">>) THEN Some("Glide")
                    ELSE None,
      tags      |-> IF Len(tags) > 0 THEN Some(tags) ELSE None]

\* Matches with the upper energy bound made exclusive
MatchesExclusive(r, filters) ==
  /\ IsSome(filters.protein) =>
       StrIncludes(toUpperCase(r.protein), toUpperCase(Get(filters.protein)))
  /\ IsSome(filters.ligand) =>
       StrIncludes(toUpperCase(r.ligand), toUpperCase(Get(filters.ligand)))
  /\ IsSome(filters.minEnergy) => Ge(r.binding_energy, Get(filters.minEnergy))
  /\ IsSome(filters.maxEnergy) => Lt(r.binding_energy, Get(filters.maxEnergy))
  /\ IsSome(filters.tool) =>
       StrIncludes(toolLower(r.docking_tool), toolLower(Get(filters.tool)))
  /\ (IsSome(filters.tags) /\ Len(Get(filters.tags)) > 0) =>
       \E i \in 1..Len(Get(filters.tags)) :
         \E j \in 1..Len(r.tags) : r.tags[j] = Get(filters.tags)[i]

\* one record against the filters, as the chain of results.filter calls
Matches(r, filters) ==
  /\ IsSome(filters.protein) =>
       StrIncludes(toUpperCase(r.protein), toUpperCase(Get(filters.protein)))
  /\ IsSome(filters.ligand) =>
       StrIncludes(toUpperCase(r.ligand), toUpperCase(Get(filters.ligand)))
  /\ IsSome(filters.minEnergy) => Ge(r.binding_energy, Get(filters.minEnergy))
  /\ IsSome(filters.maxEnergy) => Le(r.binding_energy, Get(filters.maxEnergy))
  /\ IsSome(filters.tool) =>
       StrIncludes(toolLower(r.docking_tool), toolLower(Get(filters.tool)))
  /\ (IsSome(filters.tags) /\ Len(Get(filters.tags)) > 0) =>
       \E i \in 1..Len(Get(filters.tags)) :
         \E j \in 1..Len(r.tags) : r.tags[j] = Get(filters.tags)[i]

\* the query's page size
Count == 100

\* runtime.getMemories({ tableName, roomId, count }): the memories of the room,
\* at most count of them
getMemories(table, roomId, count) ==
  LET inRoom(m) == m.roomId = roomId
      found == SelectSeq(table, inRoom)
  IN IF Len(found) <= count THEN found ELSE SubSeq(found, 1, count)

\* queryDatabase returning its results newest first
queryDatabaseNewestFirst(fetched, filters) ==
  LET isDocking(m) == "docking_result" \in DOMAIN m.content
      dockingMemories == SelectSeq(fetched, isDocking)
      results == [i \in 1..Len(dockingMemories) |-> dockingMemories[i].content.docking_result]
      keep(r) == Matches(r, filters)
      kept == SelectSeq(results, keep)
  IN [i \in 1..Len(kept) |-> kept[Len(kept) + 1 - i]]

\* queryDatabase, given what getMemories resolved to
queryDatabase(fetched, filters) ==
  LET isDocking(m) == "docking_result" \in DOMAIN m.content
      dockingMemories == SelectSeq(fetched, isDocking)
      results == [i \in 1..Len(dockingMemories) |-> dockingMemories[i].content.docking_result]
      keep(r) == Matches(r, filters)
  IN SelectSeq(results, keep)


(***************************************************************************)
(* State.                                                                  *)
(***************************************************************************)
VARIABLES
  inv,              \* the handler invocations: inputs, position, locals, result
  dockingResults,   \* global.dockingResults: undefined (None) or Some(array)
  memories,         \* the runtime's memory table, in creation order
  context,          \* the action chain's previous results, by action
  reported,         \* the results the runtime was told are stored, in order
  clock,            \* what new Date() reads
  solanaConfigured  \* SOLANA_RPC_URL and SOLANA_PRIVATE_KEY are both set

vars == <<inv, dockingResults, memories, context, reported, clock, solanaConfigured>>

AgentId == "agent"
Rooms == {AgentId, "room-1"}

\* message.content.text of the ingestion requests
ScenarioA == <<"AutoDock", "Vina", "receptor", "1ABC", "ligand", "MOL123", "energy", "-8.7">>
Contents == { <<"hi">>, <<"GOLD">>, ScenarioA }

\* message.content.text of the queries
Queries == { <<"show", "all">>, <<"protein", "1abc">> }

\* options.parsedData / options.taggedData handed in by a caller
OptParsed == { ParsedData("1ABC", "MOL123", -87, "GOLD", sha256(<<"GOLD">>)) }
OptTagged == { applyTags(ParsedData("1ABC", "UNKNOWN", -50, "Glide", sha256(<<"Glide">>))) }

Idle ==
  [kind |-> "idle", pc |-> "idle", text |-> <<>>, room |-> AgentId, ctx |-> FALSE,
   opt |-> None, data |-> None, slot |-> 0, base |-> 0, stages |-> <<>>,
   result |-> None]

\* ActionResult
Result(success, error, data) == [success |-> success, error |-> error, data |-> data]

Init ==
  /\ inv = [p \in Runs |-> Idle]
  /\ dockingResults = None
  /\ memories = <<>>
  /\ context = [parse |-> None, tag |-> None]
  /\ reported = <<>>
  /\ clock = 0
  /\ solanaConfigured \in BOOLEAN

\* a handler is inside a stretch of synchronous code: nothing else runs
Busy == \E q \in Runs : inv[q].pc = "wf_sync"

Active == {q \in Runs : inv[q].pc # "idle"}

\* the invocations that may still store a record
Storing == {q \in Runs : /\ inv[q].kind \in {"PROCESS_DOCKING_WORKFLOW", "STORE_METADATA"}
                         /\ inv[q].pc \in {"wf_cb1", "wf_cb2", "wf_cb3", "st_cb1", "st_db", "st_proof"}}

\* the array behind global.dockingResults
ResultsArray == IF IsSome(dockingResults) THEN Get(dockingResults) ELSE <<>>

\* the records the two stores hold, oldest first within each store
Repository ==
  LET hasData(m) == "data" \in DOMAIN m.content
      written == SelectSeq(memories, hasData)
  IN ResultsArray \o [i \in 1..Len(written) |-> written[i].content.data]

\* return from the handler
Return(p, res) == [inv EXCEPT ![p].pc = "done", ![p].result = Some(res)]

Tick ==
  /\ ~Busy
  /\ clock < MaxClock
  /\ clock' = clock + 1
  /\ UNCHANGED <<inv, dockingResults, memories, context, solanaConfigured, reported>>

\* the runtime calls a handler: it runs to its first await callback(...);
\* limit is the number of invocations the runtime has in flight at once, cap
\* the number of records the stores may come to hold
InvokeCapped(p, limit, cap, kind, pc, text, room, ctx, opt) ==
  /\ ~Busy
  /\ inv[p].pc = "idle"
  /\ Cardinality(Active) < limit
  /\ \A q \in Runs : q < p => inv[q].pc # "idle"
  /\ kind \in {"PROCESS_DOCKING_WORKFLOW", "STORE_METADATA"} =>
       Len(ResultsArray) + Len(memories) + Cardinality(Storing) < cap
  /\ inv' = [inv EXCEPT ![p] = [Idle EXCEPT !.kind = kind, !.pc = pc, !.text = text,
                                            !.room = room, !.ctx = ctx, !.opt = opt,
                                            !.base = Len(Repository)]]
  /\ UNCHANGED <<dockingResults, memories, context, clock, solanaConfigured, reported>>

\* the same with the model's bound on the records stored
Invoke(p, limit, kind, pc, text, room, ctx, opt) ==
  InvokeCapped(p, limit, MaxStored, kind, pc, text, room, ctx, opt)

\* the runtime has taken the handler's ActionResult: the invocation is over
Release(p) ==
  /\ ~Busy
  /\ inv[p].pc = "done"
  /\ inv' = [inv EXCEPT ![p] = Idle]
  /\ UNCHANGED <<dockingResults, memories, context, clock, solanaConfigured, reported>>

(***************************************************************************)
(* PROCESS_DOCKING_WORKFLOW.                                               *)
(***************************************************************************)
InvokeWorkflow(p, limit, contents) ==
  \E text \in contents :
    Invoke(p, limit, "PROCESS_DOCKING_WORKFLOW", "wf_cb1", text, AgentId, FALSE, None)

\* Step 1: parse, then the second progress callback
WfParse(p) ==
  /\ ~Busy
  /\ inv[p].pc = "wf_cb1"
  /\ LET parsedData == wfParseDockingContent(inv[p].text)
     IN inv' = IF ~IsSome(parsedData)
               THEN Return(p, Result(FALSE, "PARSE_FAILED", None))
               ELSE [inv EXCEPT ![p].pc = "wf_cb2", ![p].data = parsedData,
                                ![p].stages = Append(@, "extract")]
  /\ UNCHANGED <<dockingResults, memories, context, clock, solanaConfigured, reported>>

\* Step 2: tag, then the third progress callback
WfTag(p) ==
  /\ ~Busy
  /\ inv[p].pc = "wf_cb2"
  /\ inv' = [inv EXCEPT ![p].pc = "wf_cb3",
                        ![p].data = Some(wfApplyTags(Get(inv[p].data))),
                        ![p].stages = Append(@, "classify")]
  /\ UNCHANGED <<dockingResults, memories, context, clock, solanaConfigured, reported>>

\* WfStore with the array replaced by a fresh one on every push
WfStoreReinit(p) ==
  /\ ~Busy
  /\ inv[p].pc = "wf_cb3"
  /\ LET result == DockingResult(Get(inv[p].data), clock)
     IN /\ dockingResults' = Some(<<result>>)
        /\ inv' = [inv EXCEPT ![p].pc = "wf_sync", ![p].data = Some(result),
                              ![p].slot = 1,
                              ![p].stages = Append(@, "persist")]
  /\ UNCHANGED <<memories, context, clock, solanaConfigured, reported>>

\* Step 3: timestamp, result object, push onto global.dockingResults
WfStore(p) ==
  /\ ~Busy
  /\ inv[p].pc = "wf_cb3"
  /\ LET result == DockingResult(Get(inv[p].data), clock)
     IN /\ dockingResults' = Some(Append(ResultsArray, result))
        /\ inv' = [inv EXCEPT ![p].pc = "wf_sync", ![p].data = Some(result),
                              ![p].slot = Len(ResultsArray) + 1,
                              ![p].stages = Append(@, "persist")]
  /\ UNCHANGED <<memories, context, clock, solanaConfigured, reported>>

\* the mock proof: hash the result object, write solana_tx into that same
\* object, which the array already holds; then the last progress callback
WfAnchor(p) ==
  /\ inv[p].pc = "wf_sync"
  /\ LET result       == Get(inv[p].data)
         metadataHash == sha256(Json(ResultKeys, result))
         anchored     == [result EXCEPT !.solana_tx = Some(mockTxId(metadataHash))]
     IN /\ dockingResults' = Some([ResultsArray EXCEPT ![inv[p].slot] = anchored])
        /\ inv' = [inv EXCEPT ![p].pc = "wf_cb4", ![p].data = Some(anchored),
                              ![p].stages = Append(@, "anchor")]
  /\ UNCHANGED <<memories, context, clock, solanaConfigured, reported>>

WfReturn(p) ==
  /\ ~Busy
  /\ inv[p].pc = "wf_cb4"
  /\ inv' = Return(p, Result(TRUE, "", inv[p].data))
  /\ UNCHANGED <<dockingResults, memories, context, clock, solanaConfigured>>
  /\ reported' = Append(reported, Get(inv[p].data))

\* a progress callback rejects: the catch block
WfCatch(p) ==
  /\ ~Busy
  /\ inv[p].pc \in {"wf_cb1", "wf_cb2", "wf_cb3", "wf_cb4"}
  /\ inv' = Return(p, Result(FALSE, "CALLBACK_ERROR", None))
  /\ UNCHANGED <<dockingResults, memories, context, clock, solanaConfigured, reported>>

(***************************************************************************)
(* PARSE_DOCKING_FILE.                                                     *)
(***************************************************************************)
InvokeParse(p, limit, contents) ==
  \E text \in contents :
    Invoke(p, limit, "PARSE_DOCKING_FILE", "parse_cb1", text, AgentId, FALSE, None)

ParseContent(p) ==
  /\ ~Busy
  /\ inv[p].pc = "parse_cb1"
  /\ LET parsedData == parseDockingContent(inv[p].text)
     IN IF ~IsSome(parsedData)
        THEN /\ inv' = Return(p, Result(FALSE, "PARSE_FAILED", None))
             /\ context' = [context EXCEPT !.parse = None]
        ELSE /\ inv' = [inv EXCEPT ![p].pc = "parse_cb2", ![p].data = parsedData,
                                   ![p].stages = Append(@, "extract")]
             /\ UNCHANGED context
  /\ UNCHANGED <<dockingResults, memories, clock, solanaConfigured, reported>>

ParseReturn(p) ==
  /\ ~Busy
  /\ inv[p].pc = "parse_cb2"
  /\ inv' = Return(p, Result(TRUE, "", inv[p].data))
  /\ context' = [context EXCEPT !.parse = inv[p].data]
  /\ UNCHANGED <<dockingResults, memories, clock, solanaConfigured, reported>>

ParseCatch(p) ==
  /\ ~Busy
  /\ inv[p].pc \in {"parse_cb1", "parse_cb2"}
  /\ inv' = Return(p, Result(FALSE, "CALLBACK_ERROR", None))
  /\ context' = [context EXCEPT !.parse = None]
  /\ UNCHANGED <<dockingResults, memories, clock, solanaConfigured, reported>>

(***************************************************************************)
(* AUTO_TAG_DOCKING_RESULT.                                                *)
(***************************************************************************)
InvokeTag(p, limit, optParsed) ==
  \E ctx \in BOOLEAN, opt \in {None} \cup {Some(d) : d \in optParsed} :
    Invoke(p, limit, "AUTO_TAG_DOCKING_RESULT", "tag_cb1", <<>>, AgentId, ctx, opt)

\* context?.getPreviousResult?.(name)?.data || fromOptions
Upstream(ctx, previous, fromOptions) ==
  IF ctx /\ IsSome(previous) THEN previous ELSE fromOptions

TagApply(p) ==
  /\ ~Busy
  /\ inv[p].pc = "tag_cb1"
  /\ LET parsedData == Upstream(inv[p].ctx, context.parse, inv[p].opt)
     IN IF ~IsSome(parsedData)
        THEN /\ inv' = Return(p, Result(FALSE, "MISSING_PARSED_DATA", None))
             /\ context' = [context EXCEPT !.tag = None]
        ELSE /\ inv' = [inv EXCEPT ![p].pc = "tag_cb2",
                                   ![p].data = Some(applyTags(Get(parsedData))),
                                   ![p].stages = Append(@, "classify")]
             /\ UNCHANGED context
  /\ UNCHANGED <<dockingResults, memories, clock, solanaConfigured, reported>>

TagReturn(p) ==
  /\ ~Busy
  /\ inv[p].pc = "tag_cb2"
  /\ inv' = Return(p, Result(TRUE, "", inv[p].data))
  /\ context' = [context EXCEPT !.tag = inv[p].data]
  /\ UNCHANGED <<dockingResults, memories, clock, solanaConfigured, reported>>

TagCatch(p) ==
  /\ ~Busy
  /\ inv[p].pc \in {"tag_cb1", "tag_cb2"}
  /\ inv' = Return(p, Result(FALSE, "CALLBACK_ERROR", None))
  /\ context' = [context EXCEPT !.tag = None]
  /\ UNCHANGED <<dockingResults, memories, clock, solanaConfigured, reported>>

(***************************************************************************)
(* STORE_METADATA.                                                         *)
(***************************************************************************)
InvokeStore(p, limit, optTagged) ==
  \E room \in Rooms, ctx \in BOOLEAN, opt \in {None} \cup {Some(d) : d \in optTagged} :
    Invoke(p, limit, "STORE_METADATA", "st_cb1", <<>>, room, ctx, opt)

\* StoreBegin without the check for missing tagged data
StoreBeginUnchecked(p) ==
  /\ ~Busy
  /\ inv[p].pc = "st_cb1"
  /\ LET taggedData == Upstream(inv[p].ctx, context.tag, inv[p].opt)
         given == IF IsSome(taggedData) THEN Get(taggedData)
                  ELSE TaggedData(ParsedData("UNKNOWN", "UNKNOWN", 0, "Unknown", None), <<>>, 0)
     IN inv' = [inv EXCEPT ![p].pc = "st_db",
                           ![p].data = Some(storeInDatabase(given, clock))]
  /\ UNCHANGED <<dockingResults, memories, context, clock, solanaConfigured, reported>>

\* the tagged data, the timestamp, await storeInDatabase(...)
StoreBegin(p) ==
  /\ ~Busy
  /\ inv[p].pc = "st_cb1"
  /\ LET taggedData == Upstream(inv[p].ctx, context.tag, inv[p].opt)
     IN inv' = IF ~IsSome(taggedData)
               THEN Return(p, Result(FALSE, "MISSING_TAGGED_DATA", None))
               ELSE [inv EXCEPT ![p].pc = "st_db",
                                ![p].data = Some(storeInDatabase(Get(taggedData), clock))]
  /\ UNCHANGED <<dockingResults, memories, context, clock, solanaConfigured, reported>>

\* await createSolanaProof(runtime, storedData); finalResult
StoreProof(p) ==
  /\ ~Busy
  /\ inv[p].pc = "st_db"
  /\ \E throws \in BOOLEAN :
       LET storedData == Get(inv[p].data)
           proof      == createSolanaProof(solanaConfigured, throws, storedData)
           stage      == IF throws THEN "anchor_failed" ELSE "anchor"
       IN inv' = IF proof.raised
                 THEN [Return(p, Result(FALSE, "PROOF_ERROR", None))
                         EXCEPT ![p].stages = Append(@, stage)]
                 ELSE [inv EXCEPT ![p].pc = "st_proof",
                                  ![p].data = Some([storedData EXCEPT !.solana_tx = proof.value]),
                                  ![p].stages = Append(@, stage)]
  /\ UNCHANGED <<dockingResults, memories, context, clock, solanaConfigured, reported>>

\* await runtime.createMemory(...) resolves, then the final callback
StoreCreate(p) ==
  /\ ~Busy
  /\ inv[p].pc = "st_proof"
  /\ memories' = Append(memories,
                        [roomId |-> inv[p].room,
                         content |-> [type |-> "docking_result", data |-> Get(inv[p].data)]])
  /\ inv' = [inv EXCEPT ![p].pc = "st_cb2", ![p].stages = Append(@, "persist")]
  /\ UNCHANGED <<dockingResults, context, clock, solanaConfigured, reported>>

\* runtime.createMemory(...) rejects: the catch block
StoreCreateFails(p) ==
  /\ ~Busy
  /\ inv[p].pc = "st_proof"
  /\ inv' = Return(p, Result(FALSE, "STORAGE_ERROR", None))
  /\ UNCHANGED <<dockingResults, memories, context, clock, solanaConfigured, reported>>

StoreReturn(p) ==
  /\ ~Busy
  /\ inv[p].pc = "st_cb2"
  /\ inv' = Return(p, Result(TRUE, "", inv[p].data))
  /\ UNCHANGED <<dockingResults, memories, context, clock, solanaConfigured>>
  /\ reported' = Append(reported, Get(inv[p].data))

StoreCatch(p) ==
  /\ ~Busy
  /\ inv[p].pc \in {"st_cb1", "st_cb2"}
  /\ inv' = Return(p, Result(FALSE, "CALLBACK_ERROR", None))
  /\ UNCHANGED <<dockingResults, memories, context, clock, solanaConfigured, reported>>

(***************************************************************************)
(* QUERY_DOCKING_DATA.                                                     *)
(***************************************************************************)
InvokeQuery(p, limit, queries) ==
  \E text \in queries :
    Invoke(p, limit, "QUERY_DOCKING_DATA", "q_cb1", text, AgentId, FALSE, None)

\* QueryRead that also writes what it found back to the memory table
QueryReadCaching(p) ==
  /\ ~Busy
  /\ inv[p].pc = "q_cb1"
  /\ LET filters == parseQueryFilters(inv[p].text)
         results == queryDatabase(getMemories(memories, AgentId, Count), filters)
     IN /\ inv' = [inv EXCEPT ![p].pc = "q_cb2", ![p].data = Some(results)]
        /\ memories' = Append(memories, [roomId |-> AgentId, content |-> [data |-> results]])
  /\ UNCHANGED <<dockingResults, context, clock, solanaConfigured, reported>>

\* parseQueryFilters, queryDatabase with getMemories resolving, the callback
QueryRead(p) ==
  /\ ~Busy
  /\ inv[p].pc = "q_cb1"
  /\ LET filters == parseQueryFilters(inv[p].text)
         results == queryDatabase(getMemories(memories, AgentId, Count), filters)
     IN inv' = [inv EXCEPT ![p].pc = "q_cb2", ![p].data = Some(results)]
  /\ UNCHANGED <<dockingResults, memories, context, clock, solanaConfigured, reported>>

\* getMemories rejects: queryDatabase's catch returns []
QueryReadFails(p) ==
  /\ ~Busy
  /\ inv[p].pc = "q_cb1"
  /\ inv' = [inv EXCEPT ![p].pc = "q_cb2", ![p].data = Some(<<>>),
                        ![p].stages = Append(@, "read_failed")]
  /\ UNCHANGED <<dockingResults, memories, context, clock, solanaConfigured, reported>>

\* the handler's successful ActionResult: values.count and data.results
QueryResult(results, count) ==
  [success |-> TRUE, error |-> "", data |-> Some(results), count |-> count]

\* QueryReturn with values.count left at 0 in both branches
QueryReturnUncounted(p) ==
  /\ ~Busy
  /\ inv[p].pc = "q_cb2"
  /\ inv' = Return(p, QueryResult(Get(inv[p].data), 0))
  /\ UNCHANGED <<dockingResults, memories, context, clock, solanaConfigured, reported>>

\* the response callback resolved: the return of the results.length === 0
\* branch or of the formatted one
QueryReturn(p) ==
  /\ ~Busy
  /\ inv[p].pc = "q_cb2"
  /\ LET results == Get(inv[p].data)
     IN inv' = Return(p, IF Len(results) = 0
                           THEN QueryResult(<<>>, 0)
                           ELSE QueryResult(results, Len(results)))
  /\ UNCHANGED <<dockingResults, memories, context, clock, solanaConfigured, reported>>

QueryCatch(p) ==
  /\ ~Busy
  /\ inv[p].pc \in {"q_cb1", "q_cb2"}
  /\ inv' = Return(p, Result(FALSE, "CALLBACK_ERROR", None))
  /\ UNCHANGED <<dockingResults, memories, context, clock, solanaConfigured, reported>>

(***************************************************************************)
(* The system.                                                             *)
(***************************************************************************)
\* One conversation: the runtime runs the handlers of an action chain one at a
\* time, each to its return.
Next ==
  \/ Tick
  \/ \E p \in Runs :
       \/ InvokeWorkflow(p, 1, Contents) \/ WfParse(p) \/ WfTag(p) \/ WfStore(p)
       \/ WfAnchor(p) \/ WfReturn(p) \/ WfCatch(p)
       \/ InvokeParse(p, 1, Contents) \/ ParseContent(p) \/ ParseReturn(p)
       \/ ParseCatch(p)
       \/ InvokeTag(p, 1, OptParsed) \/ TagApply(p) \/ TagReturn(p) \/ TagCatch(p)
       \/ InvokeStore(p, 1, OptTagged) \/ StoreBegin(p) \/ StoreProof(p)
       \/ StoreCreate(p) \/ StoreCreateFails(p) \/ StoreReturn(p) \/ StoreCatch(p)
       \/ InvokeQuery(p, 1, Queries) \/ QueryRead(p) \/ QueryReadFails(p)
       \/ QueryReturn(p) \/ QueryCatch(p)
       \/ Release(p)

Spec == Init /\ [][Next]_vars

(***************************************************************************)
(* Vocabulary of the properties.                                           *)
(***************************************************************************)
HasStage(p, st) == \E i \in 1..Len(inv[p].stages) : inv[p].stages[i] = st

Returned(p) == inv[p].pc = "done"
Succeeded(p) == Returned(p) /\ Get(inv[p].result).success
Failed(p) == Returned(p) /\ ~Get(inv[p].result).success

Ingestion == {"PROCESS_DOCKING_WORKFLOW", "STORE_METADATA"}

StageRank(st) ==
  CASE st = "extract" -> 1
    [] st = "classify" -> 2
    [] st \in {"anchor", "anchor_failed"} -> 3
    [] st = "persist" -> 4
    [] OTHER -> 0

(***************************************************************************)
(* C1 (stated as claimed; the workflow violates it): in every ingestion    *)
(* run the stages occur strictly in the order extract, classify, anchor,   *)
(* persist, and a record is inserted only after its anchor outcome (a      *)
(* reference or an explicit null) has been determined: no run has added a  *)
(* record to a store before it has passed the anchor stage.                *)
(***************************************************************************)
C1_PersistAfterAnchor ==
  \A p \in Runs :
    LET st == inv[p].stages
    IN /\ \A i, j \in 1..Len(st) : i < j => StageRank(st[i]) < StageRank(st[j])
       /\ \A j \in 1..Len(st) :
            st[j] = "persist" => \E i \in 1..(j - 1) : StageRank(st[i]) = 3
       /\ Len(Repository) > inv[p].base => \E i \in 1..Len(st) : StageRank(st[i]) = 3

(***************************************************************************)
(* C2 (stated as claimed; the workflow violates it): a record, once        *)
(* appended, stays at its position with every field, solana_tx included,   *)
(* as it was when it was appended.                                         *)
(***************************************************************************)
C2_AppendOnly ==
  [][ /\ \A i \in 1..Len(ResultsArray) :
           i <= Len(ResultsArray') /\ ResultsArray'[i] = ResultsArray[i]
      /\ \A i \in 1..Len(memories) :
           i <= Len(memories') /\ memories'[i] = memories[i] ]_vars

(***************************************************************************)
(* C3 (stated as claimed; both ingestion handlers violate it): an          *)
(* ingestion handler that returns success = false has written nothing.     *)
(***************************************************************************)
C3_NoPartialWrite ==
  \A p \in Runs :
    (inv[p].kind \in Ingestion /\ Failed(p)) =>
      (~HasStage(p, "persist") /\ Len(Repository) = inv[p].base)

(***************************************************************************)
(* C4 (stated as claimed; the query violates it): a record reported as     *)
(* stored is returned by a later query whose filter is empty or which the  *)
(* record satisfies.  Stated for the queries whose read of the store did   *)
(* not fail.                                                               *)
(***************************************************************************)
C4_StoredIsQueryable ==
  \A q \in Runs :
    (inv[q].kind = "QUERY_DOCKING_DATA" /\ Succeeded(q) /\ ~HasStage(q, "read_failed")) =>
      \A i \in 1..Len(reported) :
        Matches(reported[i], parseQueryFilters(inv[q].text)) =>
          \E j \in 1..Len(Get(inv[q].data)) : Get(inv[q].data)[j] = reported[i]

(***************************************************************************)
(* C5 (stated as claimed; the workflow violates it): with the ledger not   *)
(* configured every stored record has solana_tx = null.                    *)
(***************************************************************************)
C5_NoFabricatedReference ==
  ~solanaConfigured =>
    \A i \in 1..Len(Repository) : Repository[i].solana_tx = None

(***************************************************************************)
(* C8 (stated as claimed; the workflow violates it): a run whose           *)
(* extraction succeeded is never aborted: when it has returned, its        *)
(* record is stored and it reports success.                                *)
(***************************************************************************)
C8_NoAbortAfterExtraction ==
  \A p \in Runs :
    (inv[p].kind = "PROCESS_DOCKING_WORKFLOW" /\ Returned(p) /\ HasStage(p, "extract")) =>
      (HasStage(p, "persist") /\ Succeeded(p))

(***************************************************************************)
(* C9 (stated as claimed; both extractors violate it): a submission        *)
(* shorter than 10 characters is a parse failure on both ingestion paths,  *)
(* whatever markers it holds, and nothing is stored for it.                *)
(***************************************************************************)
C9_ShortInputRejected ==
  \A p \in Runs :
    (/\ inv[p].kind \in {"PARSE_DOCKING_FILE", "PROCESS_DOCKING_WORKFLOW"}
     /\ Length(inv[p].text) < 10) =>
      /\ ~HasStage(p, "extract")
      /\ Len(Repository) = inv[p].base
      /\ Returned(p) => ~Get(inv[p].result).success

(***************************************************************************)
(* C6: a ledger failure is a non-fatal degradation.  When something inside *)
(* createSolanaProof throws, the call returns null without raising:        *)
(* STORE_METADATA goes on to the store with solana_tx = null, the store    *)
(* step is enabled, the memory it creates holds solana_tx = null, and the  *)
(* handler returns success = true unless the store or the final callback   *)
(* itself throws.                                                          *)
(***************************************************************************)
C6_LedgerFailureNonFatal ==
  \A p \in Runs :
    (inv[p].kind = "STORE_METADATA" /\ HasStage(p, "anchor_failed")) =>
      /\ inv[p].pc \in {"st_proof", "st_cb2", "done"}
      /\ Get(inv[p].data).solana_tx = None
      /\ inv[p].pc = "st_proof" => ENABLED StoreCreate(p)
      /\ HasStage(p, "persist") =>
           /\ Len(memories) > 0
           /\ memories[Len(memories)].content.data = Get(inv[p].data)
      /\ Failed(p) => Get(inv[p].result).error \in {"STORAGE_ERROR", "CALLBACK_ERROR"}
      /\ Succeeded(p) =>
           /\ HasStage(p, "persist")
           /\ Get(Get(inv[p].result).data).solana_tx = None

\* the ledger is configured, the proof failed, the record is stored with a
\* null reference and the handler reported success
C6_Witness ==
  \E p \in Runs :
    /\ inv[p].kind = "STORE_METADATA"
    /\ solanaConfigured
    /\ HasStage(p, "anchor_failed")
    /\ Succeeded(p)
    /\ Len(memories) > 0
    /\ memories[Len(memories)].content.data.solana_tx = None

(***************************************************************************)
(* C7: a stage run without its upstream output is rejected.  AUTO_TAG      *)
(* with no parsed record (none from the chain, none in the options) and    *)
(* STORE_METADATA with no tagged record return failure, the error being    *)
(* MISSING_PARSED_DATA / MISSING_TAGGED_DATA unless the first progress     *)
(* callback threw, and nothing is classified, anchored or stored: the run  *)
(* passes through no stage, holds no data, and both stores are untouched.  *)
(***************************************************************************)
C7_MissingUpstreamRejected ==
  \A p \in Runs :
    /\ (/\ inv[p].kind = "AUTO_TAG_DOCKING_RESULT"
        /\ inv[p].pc # "tag_cb1"
        /\ ~IsSome(Upstream(inv[p].ctx, context.parse, inv[p].opt))) =>
         /\ Failed(p)
         /\ Get(inv[p].result).error \in {"MISSING_PARSED_DATA", "CALLBACK_ERROR"}
         /\ Get(inv[p].result).data = None
         /\ inv[p].stages = <<>> /\ inv[p].data = None
         /\ context.tag = None
         /\ Len(Repository) = inv[p].base
    /\ (/\ inv[p].kind = "STORE_METADATA"
        /\ inv[p].pc # "st_cb1"
        /\ ~IsSome(Upstream(inv[p].ctx, context.tag, inv[p].opt))) =>
         /\ Failed(p)
         /\ Get(inv[p].result).error \in {"MISSING_TAGGED_DATA", "CALLBACK_ERROR"}
         /\ Get(inv[p].result).data = None
         /\ inv[p].stages = <<>> /\ inv[p].data = None
         /\ Len(Repository) = inv[p].base

\* STORE_METADATA was run in a chain whose AUTO_TAG left no result, with no
\* tagged data in its options either, and returned MISSING_TAGGED_DATA
C7_Witness ==
  \E p \in Runs :
    /\ inv[p].kind = "STORE_METADATA"
    /\ inv[p].ctx /\ context.tag = None /\ inv[p].opt = None
    /\ Failed(p)
    /\ Get(inv[p].result).error = "MISSING_TAGGED_DATA"
    /\ Len(Repository) = inv[p].base

(***************************************************************************)
(* The classifiers on their own: AUTO_TAG_DOCKING_RESULT is handed every   *)
(* energy of a range in its options, the workflow reads every numeric      *)
(* token after the word energy.                                            *)
(***************************************************************************)
MaxEnergy == 120

ClassifyInputs ==
  {ParsedData("1ABC", "MOL123", e, "GOLD", sha256(<<"GOLD">>)) :
     e \in ((0 - MaxEnergy)..MaxEnergy) \cup {NaN}}

EnergyContents == {<<"energy", t>> : t \in NumTokens \cup {"1"}}

NextClassify ==
  \E p \in Runs :
    \/ InvokeTag(p, 1, ClassifyInputs) \/ TagApply(p) \/ TagCatch(p)
    \/ InvokeWorkflow(p, 1, EnergyContents) \/ WfParse(p) \/ WfTag(p) \/ WfCatch(p)
    \/ Release(p)

SpecClassify == Init /\ [][NextClassify]_vars

\* the run holds a freshly classified record
Classified(p) ==
  \/ inv[p].kind = "AUTO_TAG_DOCKING_RESULT" /\ inv[p].pc = "tag_cb2"
  \/ inv[p].kind = "PROCESS_DOCKING_WORKFLOW" /\ inv[p].pc = "wf_cb3"

\* the half-open partition of the energies, in tenths
PartitionTier(e) ==
  CASE e < -100               -> "very_strong_binder"
    [] -100 <= e /\ e < -80   -> "strong_binder"
    [] -80 <= e /\ e < -60    -> "moderate_binder"
    [] -60 <= e /\ e < -40    -> "weak_binder"
    [] e >= -40               -> "very_weak_binder"

ToolParts    == { <<>>, <<"AutoDock", "Vina">>, <<"GOLD">>, <<"Glide">> }
ProteinParts == { <<>>, <<"receptor", "1ABC">> }
LigandParts  == { <<>>, <<"ligand", "MOL123">>, <<"Title", "MOL123">> }
EnergyParts  == { <<>>, <<"energy", "0">>,
                  <<"Gold", "Score", "-7">>, <<"Docking", "Score", "-5">>,
                  <<"notes", "1", "-3.2">> }

TaggingContents ==
  {t \o r \o l \o e : t \in ToolParts, r \in ProteinParts, l \in LigandParts,
                      e \in EnergyParts}

TaggingInputs ==
  {ParsedData(r, l, e, t, sha256(<<t>>)) :
     r \in {"1ABC", "UNKNOWN"}, l \in {"MOL123", "GENERIC_LIGAND"},
     e \in {-87, 0}, t \in {"GOLD", "Unknown"}}
  \cup {ParsedData("GENERIC_PROTEIN", "UNKNOWN", e, "Smina  Fork", sha256(<<"Smina">>)) :
          e \in {35, NaN}}

NextTagging ==
  \E p \in Runs :
    \/ InvokeParse(p, 1, TaggingContents) \/ ParseContent(p) \/ ParseReturn(p)
    \/ ParseCatch(p)
    \/ InvokeTag(p, 1, TaggingInputs) \/ TagApply(p) \/ TagCatch(p)
    \/ InvokeWorkflow(p, 1, TaggingContents) \/ WfParse(p) \/ WfTag(p) \/ WfCatch(p)
    \/ Release(p)

SpecTagging == Init /\ [][NextTagging]_vars

\* the not-determined sentinels of the extractors
Sentinels == {"UNKNOWN", "GENERIC_PROTEIN", "GENERIC_LIGAND"}

\* the four evidence items of a record
Evidence(d) ==
  << d.protein \notin Sentinels,
     d.ligand \notin Sentinels,
     d.binding_energy # NaN /\ d.binding_energy # 0 /\ d.binding_energy < 0,
     d.docking_tool # "Unknown" >>

\* the weights of the evidence items, in tenths
Weights == <<3, 3, 2, 2>>

(***************************************************************************)
(* C11: confidence is additive and capped at 1.0.  For every record either *)
(* classifier produces, confidence is the sum of the weights 0.3, 0.3,     *)
(* 0.2, 0.2 of the evidence items that hold (protein identified, ligand    *)
(* identified, energy non-zero and negative, tool not the unknown          *)
(* sentinel), capped at 1.0: it lies in [0, 1], it is 1.0 exactly when all *)
(* four items hold, and a zero energy earns nothing.                       *)
(***************************************************************************)
C11_ConfidenceAdditiveCapped ==
  \A p \in Runs :
    Classified(p) =>
      LET d   == Get(inv[p].data)
          ev  == Evidence(d)
          w(i) == IF ev[i] THEN Weights[i] ELSE 0
          sum == w(1) + w(2) + w(3) + w(4)
      IN /\ d.confidence = (IF sum > 10 THEN 10 ELSE sum)
         /\ d.confidence \in 0..10
         /\ d.confidence = 10 <=> (\A i \in 1..4 : ev[i])
         /\ d.binding_energy = 0 => d.confidence <= 8

\* AUTO_TAG has classified a record whose energy defaulted to zero and whose
\* other three evidence items hold: confidence 0.8
C11_Witness ==
  \E p \in Runs :
    /\ inv[p].kind = "AUTO_TAG_DOCKING_RESULT"
    /\ Classified(p)
    /\ Get(inv[p].data).binding_energy = 0
    /\ Get(inv[p].data).confidence = 8

\* the rule that pushes a tag: 1 energy tier, 2 tool, 3 protein, 4 ligand
TagRank(t) ==
  CASE t \in TierTags                                 -> 1
    [] t \in {"protein_identified", "protein_unknown"} -> 3
    [] t \in {"ligand_identified", "ligand_unknown"}   -> 4
    [] OTHER                                           -> 2

(***************************************************************************)
(* C12: the tag list of every classified record is non-empty, has no       *)
(* duplicates and is in rule evaluation order: the energy-tier tag is      *)
(* first, the tool tag (tool_ and the lower-cased tool name, a run of      *)
(* blanks replaced by one underscore) is second, and the identification    *)
(* tags that follow are the protein tag before the ligand tag.  (The       *)
(* workflow's classifier pushes an identification tag only for an          *)
(* identified field; the order of what it pushes is the same.)             *)
(***************************************************************************)
C12_TagsInRuleOrder ==
  \A p \in Runs :
    Classified(p) =>
      LET d == Get(inv[p].data)
          tags == d.tags
      IN /\ Len(tags) >= 2 /\ Len(tags) <= 4
         /\ tags[1] \in TierTags
         /\ tags[2] = toolTag(d.docking_tool)
         /\ \A i, j \in 1..Len(tags) : i < j => tags[i] # tags[j]
         /\ \A i, j \in 1..Len(tags) : i < j => TagRank(tags[i]) < TagRank(tags[j])
         /\ d.docking_tool = "Smina  Fork" => tags[2] = "tool_smina_fork"
         /\ d.docking_tool = "AutoDock Vina" => tags[2] = "tool_autodock_vina"

\* AUTO_TAG has classified a record with an identified protein and a ligand
\* that is not: four tags, protein before ligand
C12_Witness ==
  \E p \in Runs :
    /\ inv[p].kind = "AUTO_TAG_DOCKING_RESULT"
    /\ Classified(p)
    /\ Get(inv[p].data).tags =
         <<"strong_binder", "tool_gold", "protein_identified", "ligand_unknown">>

\* the run holds a freshly extracted record
Extracted(p) ==
  \/ inv[p].kind = "PARSE_DOCKING_FILE" /\ inv[p].pc = "parse_cb2"
  \/ inv[p].kind = "PROCESS_DOCKING_WORKFLOW" /\ inv[p].pc = "wf_cb2"

\* the fields an extractor locates
Fields(d) == <<d.protein, d.ligand, d.binding_energy, d.docking_tool>>

C14_DigestRoundTrip ==
  \A i \in 1..Len(Repository) :
    LET r == Repository[i]
    IN IsSome(r.solana_tx) =>
         Get(r.solana_tx) = mockTxId(sha256(Json(ProofKeys, r)))

(***************************************************************************)
(* The query on its own, over a memory table that already holds docking    *)
(* results under the key the query reads, and over query texts built from  *)
(* every combination of the recognized dimensions.                         *)
(***************************************************************************)
MaxRecords == 2

QueryRecords ==
  { DockingResult(applyTags(ParsedData("1ABC", "MOL123", -87, "AutoDock Vina", None)), 0),
    DockingResult(applyTags(ParsedData("1ABC", "UNKNOWN", -60, "GOLD", None)), 0),
    DockingResult(applyTags(ParsedData("2XYZ", "MOL123", -50, "Glide", None)), 0) }

QueryMemories ==
  {[roomId |-> AgentId, content |-> [docking_result |-> r]] : r \in QueryRecords}
  \cup {[roomId |-> "room-1",
         content |-> [docking_result |->
           DockingResult(applyTags(ParsedData("1ABC", "MOL123", -105, "GOLD", None)), 0)]]}

QueryTables ==
  UNION {[1..n -> QueryMemories] : n \in 0..MaxRecords}

QueryTexts ==
  {a \o b \o c \o d \o e :
     a \in { <<>>, <<"protein", "1abc">>, <<"protein", "abc">> },
     b \in { <<>>, <<"ligand", "mol123">> },
     c \in { <<>>, <<"below", "-6">>, <<"above", "-8.7">>, <<">", "-">> },
     d \in { <<>>, <<"Vina">> },
     e \in { <<>>, <<"strong", "binder">>, <<"weak", "binder">> }}
  \cup { <<"show", "all">>, <<"hi">>, <<"energy", "-7">> }

InitQuery ==
  /\ inv = [p \in Runs |-> Idle]
  /\ dockingResults = None
  /\ memories \in QueryTables
  /\ context = [parse |-> None, tag |-> None]
  /\ reported = <<>>
  /\ clock = 0
  /\ solanaConfigured \in BOOLEAN

NextQuery ==
  \E p \in Runs :
    \/ InvokeQuery(p, 1, QueryTexts) \/ QueryRead(p) \/ QueryReadFails(p)
    \/ QueryReturn(p) \/ QueryCatch(p)
    \/ Release(p)

SpecQuery == InitQuery /\ [][NextQuery]_vars

\* the query q has evaluated its filter over what it read
Evaluated(q) ==
  /\ inv[q].kind = "QUERY_DOCKING_DATA"
  /\ inv[q].pc \in {"q_cb2", "done"}
  /\ IsSome(inv[q].data)
  /\ ~HasStage(q, "read_failed")

\* the docking results the query reads: those of the agent's room
Candidates ==
  LET readable(m) == m.roomId = AgentId /\ "docking_result" \in DOMAIN m.content
      ms == SelectSeq(memories, readable)
  IN [i \in 1..Len(ms) |-> ms[i].content.docking_result]

\* a record satisfies every present field of a filter
Satisfies(r, f) ==
  /\ f.protein # None => StrIncludes(toUpperCase(r.protein), toUpperCase(f.protein[1]))
  /\ f.ligand # None => StrIncludes(toUpperCase(r.ligand), toUpperCase(f.ligand[1]))
  /\ f.minEnergy # None =>
       (f.minEnergy[1] # NaN /\ r.binding_energy >= f.minEnergy[1])
  /\ f.maxEnergy # None =>
       (f.maxEnergy[1] # NaN /\ r.binding_energy <= f.maxEnergy[1])
  /\ f.tool # None => StrIncludes(toolLower(r.docking_tool), toolLower(f.tool[1]))
  /\ f.tags # None => \E t \in {f.tags[1][i] : i \in 1..Len(f.tags[1])} :
                        t \in {r.tags[j] : j \in 1..Len(r.tags)}

(***************************************************************************)
(* C15: query evaluation is a strict conjunction.  The result of a query   *)
(* holds exactly the records it read that satisfy every present field of   *)
(* its filter: protein, ligand and tool by case-insensitive containment,   *)
(* minEnergy and maxEnergy as inclusive bounds, tags when any requested    *)
(* tag is present; an absent field imposes no constraint.                  *)
(***************************************************************************)
C15_StrictConjunction ==
  \A q \in Runs :
    Evaluated(q) =>
      LET f == parseQueryFilters(inv[q].text)
          res == Get(inv[q].data)
      IN /\ \A i \in 1..Len(res) : Satisfies(res[i], f)
         /\ \A i \in 1..Len(Candidates) :
              Satisfies(Candidates[i], f) =>
                \E j \in 1..Len(res) : res[j] = Candidates[i]
         /\ Len(res) = Cardinality({i \in 1..Len(Candidates) : Satisfies(Candidates[i], f)})

\* a query with an upper bound of -6 has returned the record whose energy is
\* exactly -6 and left out the record at -5
C15_Witness ==
  \E q \in Runs :
    /\ Evaluated(q)
    /\ parseQueryFilters(inv[q].text).maxEnergy = Some(-60)
    /\ \E j \in 1..Len(Get(inv[q].data)) : Get(inv[q].data)[j].binding_energy = -60
    /\ \E i \in 1..Len(Candidates) : Candidates[i].binding_energy = -50
    /\ \A j \in 1..Len(Get(inv[q].data)) : Get(inv[q].data)[j].binding_energy # -50

(***************************************************************************)
(* C16: query result order is insertion order.  The result of a query is   *)
(* a subsequence of the listing it read: its records are records of the    *)
(* listing taken at strictly increasing positions, so two returned records *)
(* keep their relative order and none is returned twice.                   *)
(***************************************************************************)
C16_ResultInInsertionOrder ==
  \A q \in Runs :
    Evaluated(q) =>
      LET res == Get(inv[q].data)
      IN \E pos \in [1..Len(res) -> 1..Len(Candidates)] :
           /\ \A i \in 1..Len(res) : Candidates[pos[i]] = res[i]
           /\ \A i, j \in 1..Len(res) : i < j => pos[i] < pos[j]

\* a query has returned two different records, in the order of the listing
C16_Witness ==
  \E q \in Runs :
    /\ Evaluated(q)
    /\ Len(Get(inv[q].data)) = 2
    /\ Get(inv[q].data)[1] # Get(inv[q].data)[2]
    /\ Len(Candidates) = 2
    /\ Get(inv[q].data) = Candidates

(***************************************************************************)
(* Concurrent ingestion: the runtime has up to MaxActive handlers in       *)
(* flight, interleaved at their awaits.                                    *)
(***************************************************************************)
InvokeWorkflowConcurrent(p) ==
  \E text \in { ScenarioA } :
    InvokeCapped(p, MaxActive, MaxActive, "PROCESS_DOCKING_WORKFLOW", "wf_cb1", text,
                 AgentId, FALSE, None)

InvokeStoreConcurrent(p) ==
  \E d \in OptTagged :
    InvokeCapped(p, MaxActive, MaxActive, "STORE_METADATA", "st_cb1", <<>>,
                 "room-1", FALSE, Some(d))

NextConcurrent ==
  \E p \in Runs :
    \/ InvokeWorkflowConcurrent(p) \/ WfParse(p) \/ WfTag(p) \/ WfStore(p)
    \/ WfAnchor(p) \/ WfReturn(p) \/ WfCatch(p)
    \/ InvokeStoreConcurrent(p) \/ StoreBegin(p) \/ StoreProof(p)
    \/ StoreCreate(p) \/ StoreCreateFails(p) \/ StoreReturn(p) \/ StoreCatch(p)
    \/ Release(p)

SpecConcurrent == Init /\ [][NextConcurrent]_vars

\* the runs that pass their store step in the current step
StoringNow(from, to) ==
  {p \in Runs : inv[p].pc = from /\ inv'[p].pc = to}

(***************************************************************************)
(* C17: appends are serialized under concurrency.  In every step, each     *)
(* invocation that passes its store step adds exactly one record to its    *)
(* store and no other step adds or removes one; the records appended       *)
(* earlier stay at their positions (no append is lost or overwritten, the  *)
(* first push that creates the array included); and in every state a       *)
(* reader can run in (any state outside a handler's synchronous stretch)   *)
(* every record of the array is complete, its solana_tx written.           *)
(***************************************************************************)
C17_AppendsSerialized ==
  [][ /\ Len(ResultsArray') =
           Len(ResultsArray) + Cardinality(StoringNow("wf_cb3", "wf_sync"))
      /\ Len(memories') = Len(memories) + Cardinality(StoringNow("st_proof", "st_cb2"))
      /\ \A i \in 1..Len(ResultsArray) :
           [ResultsArray'[i] EXCEPT !.solana_tx = None] =
             [ResultsArray[i] EXCEPT !.solana_tx = None]
      /\ \A i \in 1..Len(memories) : memories'[i] = memories[i]
      /\ ~Busy' => \A i \in 1..Len(ResultsArray') : IsSome(ResultsArray'[i].solana_tx)
    ]_vars

\* two workflow invocations were in flight together and each has pushed its
\* record: the array holds both, at different positions
C17_Witness ==
  \E p, q \in Runs :
    /\ p # q
    /\ inv[p].kind = "PROCESS_DOCKING_WORKFLOW" /\ inv[p].pc = "wf_cb4"
    /\ inv[q].kind = "PROCESS_DOCKING_WORKFLOW" /\ inv[q].pc = "wf_cb4"
    /\ inv[p].slot # inv[q].slot
    /\ Len(ResultsArray) = 2
    /\ ResultsArray[inv[p].slot] = Get(inv[p].data)
    /\ ResultsArray[inv[q].slot] = Get(inv[q].data)

\* the tokens of a text
Tokens(c) == {c[i] : i \in 1..Len(c)}

\* the numbers a text holds
Numbers(c) ==
  {parseFloat(NumPrefix(t)) : t \in {u \in Tokens(c) : NumPrefix(u) # ""}}
  \cup {parseFloat(NumSuffix(t)) : t \in {u \in Tokens(c) : NumSuffix(u) # ""}}

(***************************************************************************)
(* C18 (stated as claimed; the Glide ruleset and the generic fallback of   *)
(* PARSE_DOCKING_FILE violate it): no success path holds an invented       *)
(* value.  In every extracted record the protein and the ligand are names  *)
(* found in the submission or a not-determined sentinel, and the energy is *)
(* a number found in the submission or the zero default; and a record      *)
(* AUTO_TAG classifies from the chain is tagged protein_identified         *)
(* (ligand_identified), and earns the 0.3 for it, only if that name is in  *)
(* the submission.                                                         *)
(***************************************************************************)
C18_NoInventedValue ==
  \A p \in Runs :
    /\ Extracted(p) =>
         LET d == Get(inv[p].data)
         IN /\ d.protein \in Sentinels \cup Tokens(inv[p].text)
            /\ d.ligand \in Sentinels \cup Tokens(inv[p].text)
            /\ d.binding_energy \in {0} \cup Numbers(inv[p].text)
    /\ (/\ inv[p].kind = "AUTO_TAG_DOCKING_RESULT" /\ Classified(p)
        /\ inv[p].ctx /\ IsSome(context.parse)) =>
         LET d == Get(inv[p].data)
             text == d.file_hash[2]
             has(tag) == \E i \in 1..Len(d.tags) : d.tags[i] = tag
         IN /\ has("protein_identified") => d.protein \in Tokens(text)
            /\ has("ligand_identified") => d.ligand \in Tokens(text)
            /\ (d.protein \notin Tokens(text) /\ d.ligand \notin Tokens(text)) =>
                 d.confidence <= 4

\* the words the filter patterns of the query look for
FilterWords ==
  {"protein", "ligand", "below", "above", "less", "<", "greater", ">",
   "vina", "gold", "glide", "binder"}

\* a query text that holds none of the recognized dimension patterns
Unrecognized(text) == \A i \in 1..Len(text) : toLowerCase(text[i]) \notin FilterWords

(***************************************************************************)
(* C19 (stated as claimed; the query violates it): an unrecognized query   *)
(* text yields the empty filter, and the query evaluated with it returns   *)
(* every record of the repository.                                         *)
(***************************************************************************)
C19_UnrecognizedMatchesAll ==
  \A q \in Runs :
    (Evaluated(q) /\ Unrecognized(inv[q].text)) =>
      /\ parseQueryFilters(inv[q].text) = NoFilters
      /\ Get(inv[q].data) = Repository

(***************************************************************************)
(* The chain run with caller-supplied options: AUTO_TAG_DOCKING_RESULT and *)
(* STORE_METADATA take options.parsedData and options.taggedData as they   *)
(* are given.                                                              *)
(***************************************************************************)
SuppliedTagged ==
  OptTagged \cup
  { TaggedData(ParsedData("1ABC", "MOL123", -32, "GOLD", sha256(<<"GOLD">>)),
               <<"very_strong_binder">>, 10) }

NextOptions ==
  \E p \in Runs :
    \/ InvokeTag(p, 1, OptParsed) \/ TagApply(p) \/ TagReturn(p) \/ TagCatch(p)
    \/ InvokeStore(p, 1, SuppliedTagged) \/ StoreBegin(p) \/ StoreProof(p)
    \/ StoreCreate(p) \/ StoreCreateFails(p) \/ StoreReturn(p) \/ StoreCatch(p)
    \/ Release(p)

SpecOptions == Init /\ [][NextOptions]_vars

(***************************************************************************)
(* C20 (stated as claimed; STORE_METADATA violates it): every record in    *)
(* the repository carries a rule-derived tag set.  The tags and the        *)
(* confidence of each stored record are what the classifier computes from  *)
(* that record's protein, ligand, binding_energy and docking_tool, and     *)
(* those fields are what the extractor yields for the submission the       *)
(* record's file_hash is the hash of.                                      *)
(***************************************************************************)
C20_TagsRuleDerived ==
  /\ \A i \in 1..Len(memories) :
       LET r == memories[i].content.data
           extracted == parseDockingContent(r.file_hash[2])
       IN /\ r.tags = applyTags(r).tags
          /\ r.confidence = applyTags(r).confidence
          /\ IsSome(extracted) /\ Fields(Get(extracted)) = Fields(r)
  /\ \A i \in 1..Len(ResultsArray) :
       LET r == ResultsArray[i]
       IN /\ r.tags = wfApplyTags(r).tags
          /\ r.confidence = wfApplyTags(r).confidence
          /\ Fields(Get(wfParseDockingContent(r.file_hash[2]))) = Fields(r)

\* the number of positions of a tag list that hold one of the given tags
CountTags(tags, of) == Cardinality({i \in 1..Len(tags) : tags[i] \in of})

(***************************************************************************)
(* C21 (stated as claimed; the workflow's classifier violates it):         *)
(* identification tags are recorded independently for protein and ligand.  *)
(* Every classified record holds exactly one of protein_identified /       *)
(* protein_unknown and exactly one of ligand_identified / ligand_unknown,  *)
(* the unknown variant exactly when the field is a not-determined          *)
(* sentinel.                                                               *)
(***************************************************************************)
C21_IdentificationTagsRecorded ==
  \A p \in Runs :
    Classified(p) =>
      LET d == Get(inv[p].data)
      IN /\ CountTags(d.tags, {"protein_identified", "protein_unknown"}) = 1
         /\ CountTags(d.tags, {"ligand_identified", "ligand_unknown"}) = 1
         /\ CountTags(d.tags, {"protein_unknown"}) = 1 <=> d.protein \in Sentinels
         /\ CountTags(d.tags, {"ligand_unknown"}) = 1 <=> d.ligand \in Sentinels

(***************************************************************************)
(* Format detection on its own, over submissions that carry up to two      *)
(* tool markers in either order.                                           *)
(***************************************************************************)
Markers ==
  { <<"AutoDock", "Vina">>, <<"VINA", "RESULT">>, <<"GOLD">>, <<"Gold", "Score", "-7">>,
    <<"Glide">>, <<"GLIDE">>, <<"notes", "notes">> }

DetectContents ==
  {<<>>} \cup Markers \cup {a \o b : a \in Markers, b \in Markers}

NextDetect ==
  \E p \in Runs :
    \/ InvokeParse(p, 1, DetectContents) \/ ParseContent(p) \/ ParseReturn(p)
    \/ ParseCatch(p)
    \/ InvokeWorkflow(p, 1, DetectContents) \/ WfParse(p) \/ WfCatch(p)
    \/ Release(p)

SpecDetect == Init /\ [][NextDetect]_vars

\* the ordered signatures of the two extractors: a tool and its marker phrases
ParseSignatures ==
  << [tool |-> "AutoDock Vina", phrases |-> { <<"AutoDock", "Vina">>, <<"VINA", "RESULT">> }],
     [tool |-> "GOLD",          phrases |-> { <<"GOLD">>, <<"Gold", "Score">> }],
     [tool |-> "Glide",         phrases |-> { <<"Glide">>, <<"GLIDE">> }] >>

WorkflowSignatures ==
  << [tool |-> "AutoDock Vina", phrases |-> { <<"Vina">> }],
     [tool |-> "GOLD",          phrases |-> { <<"GOLD">> }],
     [tool |-> "Glide",         phrases |-> { <<"Glide">> }] >>

\* the positions of the signatures a text matches
Matching(text, sigs) ==
  {i \in 1..Len(sigs) : \E ph \in sigs[i].phrases : includes(text, ph)}

\* the tool of the first matching signature, the unknown sentinel when none
FirstMatch(text, sigs) ==
  IF Matching(text, sigs) = {} THEN "Unknown" ELSE sigs[Min(Matching(text, sigs))].tool

(***************************************************************************)
(* C22: format detection is a fixed ordered first-match over signatures.   *)
(* The docking_tool of every extracted record is the tool of the first of  *)
(* the extractor's signatures (Vina, then GOLD, then Glide) the text       *)
(* matches, whatever later signatures it also matches; PARSE_DOCKING_FILE  *)
(* runs the generic fallback (tool Unknown, or a parse failure) exactly    *)
(* when no signature matches, and the ruleset that ran is the one of that  *)
(* tool.                                                                   *)
(***************************************************************************)
C22_FirstMatchDetection ==
  \A p \in Runs :
    /\ Extracted(p) =>
         Get(inv[p].data).docking_tool =
           FirstMatch(inv[p].text, IF inv[p].kind = "PARSE_DOCKING_FILE"
                                   THEN ParseSignatures ELSE WorkflowSignatures)
    /\ (inv[p].kind = "PARSE_DOCKING_FILE" /\ Extracted(p)) =>
         LET d == Get(inv[p].data)
         IN /\ d.protein = "GENERIC_PROTEIN" <=> Matching(inv[p].text, ParseSignatures) = {}
            /\ d.protein = "MOCK_PROTEIN" <=> FirstMatch(inv[p].text, ParseSignatures) = "Glide"
            /\ d.binding_energy = -70 =>
                 FirstMatch(inv[p].text, ParseSignatures) = "GOLD"
    /\ (inv[p].kind = "PARSE_DOCKING_FILE" /\ Failed(p)
        /\ Get(inv[p].result).error = "PARSE_FAILED") =>
         Matching(inv[p].text, ParseSignatures) = {}

\* PARSE_DOCKING_FILE has extracted a text whose GOLD marker comes before its
\* Vina marker: the Vina ruleset ran
C22_Witness ==
  \E p \in Runs :
    /\ inv[p].kind = "PARSE_DOCKING_FILE" /\ Extracted(p)
    /\ inv[p].text = <<"GOLD", "AutoDock", "Vina">>
    /\ Get(inv[p].data).docking_tool = "AutoDock Vina"

(***************************************************************************)
(* Filter parsing on its own, over query texts that put a number, a lone   *)
(* sign or nothing after each of the bound words.                          *)
(***************************************************************************)
UpperParts ==
  { <<>>, <<"below", "-6">>, <<"less", "than", "-7">>, <<"<", "-8">>, <<"below", "-", "8">>,
    <<"<", "-5", "less", "than", "-7">>, <<"less", "than", "-8", "below", "-6">> }

LowerParts ==
  { <<>>, <<"above", "-8.7">>, <<"greater", "than", "-10">>, <<">", "-10.5">>, <<">", "-">>,
    <<"above">> }

BoundTexts ==
  {u \o l : u \in UpperParts, l \in LowerParts} \cup {l \o u : u \in UpperParts, l \in LowerParts}

NextBounds ==
  \E p \in Runs :
    \/ InvokeQuery(p, 1, BoundTexts) \/ QueryRead(p) \/ QueryReadFails(p)
    \/ QueryReturn(p) \/ QueryCatch(p)
    \/ Release(p)

SpecBounds == InitQuery /\ [][NextBounds]_vars

UpperWords == { <<"below">>, <<"less", "than">>, <<"<">> }
LowerWords == { <<"above">>, <<"greater", "than">>, <<">">> }

\* the numbers that directly follow one of the bound words in a query text
Following(text, words) ==
  {parseFloat(NumPrefix(text[i + Len(w)])) :
     <<i, w>> \in {x \in (1..Len(text)) \X words :
                    /\ x[1] + Len(x[2]) <= Len(text)
                    /\ \A j \in 1..Len(x[2]) : toLowerCase(text[x[1] + j - 1]) = x[2][j]
                    /\ parseFloat(NumPrefix(text[x[1] + Len(x[2])])) # NaN}}

(***************************************************************************)
(* C23: filter parsing maps the bound words to the right side.  maxEnergy  *)
(* is set when a number follows "below", "less than" or "<" and only then, *)
(* minEnergy is set when a number follows "above", "greater than" or ">"   *)
(* and only then, and a bound that is set is one of the numbers that       *)
(* followed a word of its side.                                            *)
(***************************************************************************)
C23_BoundWordsMapped ==
  \A q \in Runs :
    Evaluated(q) =>
      LET f == parseQueryFilters(inv[q].text)
          upper == Following(inv[q].text, UpperWords)
          lower == Following(inv[q].text, LowerWords)
      IN /\ upper # {} => IsSome(f.maxEnergy)
         /\ lower # {} => IsSome(f.minEnergy)
         /\ IsSome(f.maxEnergy) => Get(f.maxEnergy) \in upper
         /\ IsSome(f.minEnergy) => Get(f.minEnergy) \in lower

(***************************************************************************)
(* Tier queries: a memory table holding records of the five tiers, and the *)
(* query texts that name one tier.                                         *)
(***************************************************************************)
TierRecords ==
  { DockingResult(applyTags(ParsedData("1ABC", "MOL123", e, "AutoDock Vina", None)), 0) :
      e \in {-105, -87, -70, -50, -32} }

TierTables ==
  UNION {[1..n -> {[roomId |-> AgentId, content |-> [docking_result |-> r]] : r \in TierRecords}] :
           n \in 0..MaxRecords}

\* the binder keyword of a tier
TierKeyword(t) ==
  CASE t = "very_strong_binder" -> <<"very", "strong", "binder">>
    [] t = "strong_binder"      -> <<"strong", "binder">>
    [] t = "moderate_binder"    -> <<"moderate", "binder">>
    [] t = "weak_binder"        -> <<"weak", "binder">>
    [] t = "very_weak_binder"   -> <<"very", "weak", "binder">>

TierTexts == {TierKeyword(t) : t \in TierTags} \cup { <<"show", "all">> }

InitTiers ==
  /\ inv = [p \in Runs |-> Idle]
  /\ dockingResults = None
  /\ memories \in TierTables
  /\ context = [parse |-> None, tag |-> None]
  /\ reported = <<>>
  /\ clock = 0
  /\ solanaConfigured \in BOOLEAN

NextTiers ==
  \E p \in Runs :
    \/ InvokeQuery(p, 1, TierTexts) \/ QueryRead(p) \/ QueryReadFails(p)
    \/ QueryReturn(p) \/ QueryCatch(p)
    \/ Release(p)

SpecTiers == InitTiers /\ [][NextTiers]_vars

(***************************************************************************)
(* C24: tier keywords are mapped to their tag name.  For each of the five  *)
(* energy tiers, a query that names the tier's binder keyword gets a tags  *)
(* filter holding that tier's tag and no other, and every record it        *)
(* returns is classified in that tier.                                     *)
(***************************************************************************)
C24_TierKeywordMapped ==
  \A q \in Runs :
    Evaluated(q) =>
      \A t \in TierTags :
        inv[q].text = TierKeyword(t) =>
          LET f == parseQueryFilters(inv[q].text)
              results == Get(inv[q].data)
          IN /\ f.tags = Some(<<t>>)
             /\ \A i \in 1..Len(results) : CountTags(results[i].tags, {t}) = 1

\* none of the records the query reads satisfies its filter
MatchesNothing(q) ==
  LET f == parseQueryFilters(inv[q].text)
  IN \A i \in 1..Len(Candidates) : ~Satisfies(Candidates[i], f)

(***************************************************************************)
(* C25: a query that matches nothing is not an error.  A returned          *)
(* QUERY_DOCKING_DATA fails only when a progress callback rejected, never  *)
(* because nothing matched; when nothing matched and it succeeded it       *)
(* carries the empty result sequence and count 0; and in every successful  *)
(* response count is the length of the returned result sequence.           *)
(***************************************************************************)
C25_EmptyResultIsSuccess ==
  \A q \in Runs :
    (inv[q].kind = "QUERY_DOCKING_DATA" /\ Returned(q)) =>
      LET res == Get(inv[q].result)
      IN /\ ~res.success => res.error = "CALLBACK_ERROR"
         /\ res.success => res.count = Len(Get(res.data))
         /\ (res.success /\ MatchesNothing(q)) =>
              (Get(res.data) = <<>> /\ res.count = 0)

\* a query over a table holding two records of its room, none of which satisfies
\* its filter, has returned successfully with count 0
C25_Witness ==
  \E q \in Runs :
    /\ Succeeded(q) /\ inv[q].kind = "QUERY_DOCKING_DATA"
    /\ ~HasStage(q, "read_failed")
    /\ Len(Candidates) = 2
    /\ MatchesNothing(q)
    /\ Get(inv[q].result).count = 0

ReadOnly == {"QUERY_DOCKING_DATA", "PARSE_DOCKING_FILE", "AUTO_TAG_DOCKING_RESULT"}

\* the records of a sequence, as a set
Elements(seq) == {seq[i] : i \in 1..Len(seq)}

NextClocked ==
  \/ Tick
  \/ \E p \in Runs :
       \/ InvokeWorkflowConcurrent(p) \/ WfParse(p) \/ WfTag(p) \/ WfStore(p)
       \/ WfAnchor(p) \/ WfReturn(p) \/ WfCatch(p)
       \/ InvokeStoreConcurrent(p) \/ StoreBegin(p) \/ StoreProof(p)
       \/ StoreCreate(p) \/ StoreCreateFails(p) \/ StoreReturn(p) \/ StoreCatch(p)
       \/ Release(p)

SpecClocked == Init /\ [][NextClocked]_vars

\* the timestamps of a store's records, in the store's order
Timestamps(records) == [i \in 1..Len(records) |-> records[i].timestamp]

NonDecreasing(seq) == \A i, j \in 1..Len(seq) : i <= j => seq[i] <= seq[j]

\* the records STORE_METADATA wrote to the memory table, in creation order
Written ==
  LET hasData(m) == "data" \in DOMAIN m.content
      written == SelectSeq(memories, hasData)
  IN [i \in 1..Len(written) |-> written[i].content.data]

(***************************************************************************)
(* C27 (stated as claimed; STORE_METADATA violates it): repository order   *)
(* agrees with timestamp order.  In every reachable state of concurrent    *)
(* ingestion the records of each store appear in non-decreasing order of   *)
(* their timestamp.                                                        *)
(***************************************************************************)
C27_TimestampOrder ==
  /\ NonDecreasing(Timestamps(ResultsArray))
  /\ NonDecreasing(Timestamps(Written))

(***************************************************************************)
(* C28 (stated as claimed; the classifiers differ): the two classifiers    *)
(* agree.  For every record either of them has classified, the applyTags   *)
(* of PROCESS_DOCKING_WORKFLOW and the applyTags of                        *)
(* AUTO_TAG_DOCKING_RESULT give the same tag sequence and the same         *)
(* confidence for its protein, ligand, binding_energy and docking_tool.    *)
(***************************************************************************)
C28_ClassifiersAgree ==
  \A p \in Runs :
    Classified(p) =>
      LET d == Get(inv[p].data)
      IN /\ wfApplyTags(d).tags = applyTags(d).tags
         /\ wfApplyTags(d).confidence = applyTags(d).confidence

\* the run has run its extractor on its text, whether or not it found a record
Attempted(p) ==
  \/ Extracted(p)
  \/ /\ inv[p].kind = "PARSE_DOCKING_FILE" /\ Failed(p)
     /\ Get(inv[p].result).error = "PARSE_FAILED"

(***************************************************************************)
(* C29 (stated as claimed; the extractors differ): the two extractors      *)
(* agree.  For every submitted text either of them has run on, the         *)
(* parseDockingContent of PROCESS_DOCKING_WORKFLOW and the one of          *)
(* PARSE_DOCKING_FILE both fail, or both succeed with the same protein,    *)
(* ligand, binding_energy, docking_tool and file_hash.                     *)
(***************************************************************************)
C29_ExtractorsAgree ==
  \A p \in Runs :
    Attempted(p) =>
      LET a == parseDockingContent(inv[p].text)
          b == wfParseDockingContent(inv[p].text)
      IN /\ IsSome(a) <=> IsSome(b)
         /\ (IsSome(a) /\ IsSome(b)) =>
              /\ Fields(Get(a)) = Fields(Get(b))
              /\ Get(a).file_hash = Get(b).file_hash

(***************************************************************************)
(* C30 (stated as claimed; the query violates it): the query evaluates its *)
(* filter over the whole store.  Every record of the store that satisfies  *)
(* the filter is in the result of a query that read the store, however     *)
(* many records the store holds; and a query whose read of the store       *)
(* failed does not return success with an empty result sequence.           *)
(***************************************************************************)
C30_WholeStoreOrFailure ==
  \A q \in Runs :
    inv[q].kind = "QUERY_DOCKING_DATA" =>
      /\ Evaluated(q) =>
           LET f == parseQueryFilters(inv[q].text)
           IN \A i \in 1..Len(Candidates) :
                Satisfies(Candidates[i], f) => Candidates[i] \in Elements(Get(inv[q].data))
      /\ (HasStage(q, "read_failed") /\ Returned(q)) =>
           ~(Get(inv[q].result).success /\ Get(Get(inv[q].result).data) = <<>>)

====
